---- MODULE Spec2Model ----
(***************************************************************************)
(* A model of xagg2/core.py: the pixel layer built from a raster's bounds  *)
(* (create_raster_polygons, process_weights, make_multipoly), the          *)
(* pixel/polygon overlap table (get_pixel_overlaps), the reloading of a    *)
(* weightmap (read_wm) and the aggregation of a raster (aggregate).        *)
(*                                                                         *)
(* Coordinates are integers in half degrees (Deg(1) = 2), so that polygons *)
(* can cut pixels of one degree in half.  Floating-point values are exact  *)
(* rationals [n, d]; d = 0 stands for the IEEE results of a division by    *)
(* zero (0/0 = NaN, x/0 = inf).  Python's None is the record NoneV.        *)
(***************************************************************************)
EXTENDS Integers, Sequences, FiniteSets, TLC

VARIABLES
    pix_agg,    \* the dict returned by create_raster_polygons, or NoneV
    wm,         \* the weightmap the caller holds, or NoneV
    agg_out,    \* what the last aggregate call returned, NoneV if it raised
    err,        \* the exception the last call raised, "none" if it returned
    warned,     \* the set of warnings the last call emitted
    call,       \* the last call: its name and its arguments
    ncalls      \* number of aggregate calls made on wm so far

vars == <<pix_agg, wm, agg_out, err, warned, call, ncalls>>

----------------------------------------------------------------------------
(* Bounds of the model *)

MaxPolys == 2       \* polygons in gdf_in
MaxAggCalls == 2    \* aggregate calls sharing one weightmap

----------------------------------------------------------------------------
(* Values *)

NoneV == [py |-> "None"]

Abs(x) == IF x < 0 THEN -x ELSE x
Min2(a, b) == IF a < b THEN a ELSE b
Max2(a, b) == IF a > b THEN a ELSE b

RECURSIVE GCD(_, _)
GCD(a, b) == IF b = 0 THEN a ELSE GCD(b, a % b)

\* The float n/d.  0/0 is NaN, x/0 is +-inf (HUGE_VAL), as numpy divides.
Q(n, d) ==
    IF d = 0 THEN [n |-> (IF n > 0 THEN 1 ELSE IF n < 0 THEN -1 ELSE 0), d |-> 0]
    ELSE LET g == GCD(Abs(n), Abs(d))
             s == IF d < 0 THEN -1 ELSE 1
         IN  [n |-> s * (n \div g), d |-> s * (d \div g)]

QNaN == [n |-> 0, d |-> 0]
IsNaN(x) == x.d = 0 /\ x.n = 0
IsFinite(x) == x.d # 0
QInt(v) == [n |-> v, d |-> 1]

QAdd(x, y) ==
    IF IsNaN(x) \/ IsNaN(y) THEN QNaN
    ELSE IF x.d = 0 /\ y.d = 0 THEN (IF x.n = y.n THEN x ELSE QNaN)
    ELSE IF x.d = 0 THEN x
    ELSE IF y.d = 0 THEN y
    ELSE Q(x.n * y.d + y.n * x.d, x.d * y.d)

QMul(x, y) ==
    IF IsNaN(x) \/ IsNaN(y) THEN QNaN
    ELSE IF x.d = 0 \/ y.d = 0
         THEN (IF x.n = 0 \/ y.n = 0 THEN QNaN ELSE Q(x.n * y.n, 0))
    ELSE Q(x.n * y.n, x.d * y.d)

QDiv(x, y) ==
    IF IsNaN(x) \/ IsNaN(y) THEN QNaN
    ELSE IF x.d = 0 /\ y.d = 0 THEN QNaN
    ELSE IF x.d = 0 THEN (IF y.n < 0 THEN Q(-x.n, 0) ELSE x)
    ELSE IF y.d = 0 THEN QInt(0)
    ELSE Q(x.n * y.d, x.d * y.n)

\* float equality: NaN equals nothing
QEq(x, y) == ~IsNaN(x) /\ ~IsNaN(y) /\ x = y

RECURSIVE QSum(_)
QSum(s) == IF s = <<>> THEN QInt(0) ELSE QAdd(Head(s), QSum(Tail(s)))

RECURSIVE Reverse(_)
Reverse(s) == IF s = <<>> THEN <<>> ELSE Append(Reverse(Tail(s)), Head(s))

RECURSIVE Flatten(_)
Flatten(ss) == IF ss = <<>> THEN <<>> ELSE Head(ss) \o Flatten(Tail(ss))

Range(s) == {s[i] : i \in DOMAIN s}

\* the sequences over S of length 1..n
SeqsUpTo(S, n) == UNION {[1..k -> S] : k \in 1..n}

----------------------------------------------------------------------------
(* Geometry: a geometry is a sequence of parts, a part a sequence of        *)
(* vertices <<lon, lat>>.  Every part of the model is an axis-aligned       *)
(* rectangle, so a part is determined by its bounding box.                  *)

Deg(x) == 2 * x

Rect(x0, x1, y0, y1) == << <<x0, y0>>, <<x0, y1>>, <<x1, y1>>, <<x1, y0>> >>

MinOf(S) == CHOOSE m \in S : \A x \in S : m <= x
MaxOf(S) == CHOOSE m \in S : \A x \in S : m >= x

Box(part) ==
    [x0 |-> MinOf({p[1] : p \in Range(part)}), x1 |-> MaxOf({p[1] : p \in Range(part)}),
     y0 |-> MinOf({p[2] : p \in Range(part)}), y1 |-> MaxOf({p[2] : p \in Range(part)})]

\* sin(latitude), scaled: odd, strictly increasing and concave on 0..90 degrees
SinLat(y) == IF Abs(y) > 6 THEN (IF y < 0 THEN -36 ELSE 36)
             ELSE y * (12 - Abs(y))

----------------------------------------------------------------------------
(* Inputs *)

\* The raster of the 2x2 scenario: lon in [-1,1], lat in [-1,1], pixels of one
\* degree.  lat and lon are the pixel centres, in ascending order (fix_ds).
ScenarioGrid ==
    [lat_bnds |-> << <<Deg(-1), Deg(0)>>, <<Deg(0), Deg(1)>> >>,
     lon_bnds |-> << <<Deg(-1), Deg(0)>>, <<Deg(0), Deg(1)>> >>]

\* Grids whose first column of pixels lies across the antimeridian (fix_ds
\* sorts the longitudes, so the pixel centred on -180 comes first): pixels of
\* two degrees, and pixels of ten degrees
AntimeridianGrid ==
    [lat_bnds |-> << <<Deg(-1), Deg(0)>>, <<Deg(0), Deg(1)>> >>,
     lon_bnds |-> << <<Deg(179), Deg(-179)>>, <<Deg(-179), Deg(-177)>> >>]

CoarseAntimeridianGrid ==
    [lat_bnds |-> << <<Deg(-1), Deg(0)>>, <<Deg(0), Deg(1)>> >>,
     lon_bnds |-> << <<Deg(175), Deg(-175)>>, <<Deg(-175), Deg(-165)>> >>]

Grids == {ScenarioGrid, AntimeridianGrid, CoarseAntimeridianGrid}

NLat(ds) == Len(ds.lat_bnds)
NLon(ds) == Len(ds.lon_bnds)
NPix(ds) == NLat(ds) * NLon(ds)

\* weight fields on the raster's grid, one value per pixel in row-major order
\* (floats; QNaN is a missing value)
WeightFields ==
    { <<QInt(0), QInt(0), QInt(0), QInt(0)>>, <<QNaN, QNaN, QNaN, QNaN>>,
      <<QInt(1), QInt(1), QInt(1), QInt(1)>>, <<QInt(1), QInt(2), QInt(3), QInt(4)>>,
      <<QInt(0), QInt(0), QInt(1), QNaN>> }

\* the `weights` argument of create_raster_polygons
WeightArgs ==
    {NoneV}
    \cup {[type |-> "DataArray", vals |-> f, same_grid |-> g] :
             f \in WeightFields, g \in BOOLEAN}
    \cup {[type |-> "ndarray", vals |-> <<QInt(1), QInt(1), QInt(1), QInt(1)>>,
          same_grid |-> TRUE]}

Targets == {"ds", "weights", "pixels"}

\* the polygons of gdf_in are rectangles
PolyList ==
    << Rect(Deg(-1), Deg(1), Deg(-1), Deg(1)),     \* the whole grid
       Rect(Deg(-1), Deg(0), Deg(-1), Deg(1)),     \* its left half
       Rect(-1, 1, -1, 2),                         \* cuts all four pixels unevenly
       Rect(-1, 2, 1, 2),                          \* northern hemisphere only
       Rect(Deg(1), Deg(2), Deg(-1), Deg(1)),      \* touches the grid along an edge
       Rect(Deg(2), Deg(3), Deg(-3), Deg(-2)),     \* disjoint from the grid
       Rect(-1, 1, -2, -1),                        \* southern hemisphere only
       Rect(Deg(0), Deg(1), Deg(0), Deg(1)) >>     \* north of the equator, touching it

\* the selections of 1..MaxPolys polygons, in the order of PolyList
PolySeqs ==
    LET idx == {f \in SeqsUpTo(DOMAIN PolyList, MaxPolys) :
                   \A i \in 1..(Len(f) - 1) : f[i] <= f[i + 1]}
    IN  {[i \in DOMAIN f |-> PolyList[f[i]]] : f \in idx}

\* gdf_in: a table with a geometry column, and for some inputs an attribute
\* column that happens to be named weights
GdfInputs ==
    {[rows |-> [i \in DOMAIN g |-> [geometry |-> <<g[i]>>]]] : g \in PolySeqs}
    \cup {[rows |-> <<[geometry |-> <<PolyList[i]>>, weights |-> QInt(2)]>>] :
             i \in DOMAIN PolyList}

Impls == {"for_loop", "dot_product"}

----------------------------------------------------------------------------
(* weightmap *)

\* representations of wm.weights
Nowghts == [kind |-> "str", val |-> "nowghts"]
Series(v) == [kind |-> "Series", val |-> v]
IsSeries(w) == w.kind = "Series"
IsNowghts(w) == w.kind = "str" /\ w.val = "nowghts"

\* weightmap(agg=, source_grid=, geometry=, overlap_da=None, weights='nowghts')
DataFrame(rows) == [rows |-> rows]

weightmap(agg, source_grid, geometry, overlap_da, weights) ==
    [agg |-> agg, source_grid |-> source_grid, geometry |-> geometry,
     overlap_da |-> overlap_da, weights |-> weights]

----------------------------------------------------------------------------
(* process_weights *)

\* weights.where(~np.isnan(weights),0)
NanToZero(vals) == [i \in DOMAIN vals |-> IF IsNaN(vals[i]) THEN QInt(0) ELSE vals[i]]

\* xe.Regridder(weights,ds,alg)(weights): the field conformed to the grid of ds.
\* `vals` of a weights argument are its values on that grid.
Regrid(vals) == vals

\* warnings of lines 207-210
WeightWarnings(vals) ==
    (IF \A i \in DOMAIN vals : IsNaN(vals[i]) THEN {"all weights nan"} ELSE {})
    \cup (IF \A i \in DOMAIN vals : QEq(vals[i], QInt(0))
          THEN {"all weights 0"} ELSE {})

\* Returns [err, weights, winf, warned]: weights is the column ds['weights']
\* (empty when ds is returned unchanged), winf the 'nowghts' marker or the
\* target recorded in weights_info.
process_weights(ds, weights, target, nan_to_zero, has_xesmf) ==
    IF weights = NoneV
    THEN [err |-> "none", weights |-> <<>>, winf |-> "nowghts", warned |-> {}]
    ELSE IF weights.type # "DataArray"
    THEN [err |-> "TypeError", weights |-> <<>>, winf |-> "", warned |-> {}]
    ELSE
      LET w0 == IF nan_to_zero THEN NanToZero(weights.vals) ELSE weights.vals
          fail(e) == [err |-> e, weights |-> <<>>, winf |-> "", warned |-> {}]
          done(w) == [err |-> "none", weights |-> w, winf |-> target,
                      warned |-> WeightWarnings(w)]
      IN  IF ~weights.same_grid
          THEN IF ~has_xesmf THEN fail("ImportError")
               ELSE IF target = "ds" THEN done(Regrid(w0))
               ELSE IF target = "weights" THEN fail("NotImplementedError")
               ELSE fail("KeyError")
          ELSE done(w0)

----------------------------------------------------------------------------
(* create_raster_polygons *)

WrapAroundThresh == 5

\* make_multipoly without the [::-1] of lines 228 and 230
make_multipoly_unreversed(pts) ==
    LET neg(p) == p[1] < 0
        pos(p) == ~neg(p)
        east == SelectSeq(pts, pos)
        west == SelectSeq(pts, neg)
        at(x, s) == [i \in DOMAIN s |-> <<x, s[i][2]>>]
    IN  << east \o at(Deg(180), east),
           at(Deg(-180), west) \o west >>

\* make_multipoly: the vertices with a negative longitude go to the part that
\* starts at -180, the others to the part that ends at +180
make_multipoly(pts) ==
    LET neg(p) == p[1] < 0
        pos(p) == ~neg(p)
        east == SelectSeq(pts, pos)
        west == SelectSeq(pts, neg)
        at(x, s) == [i \in DOMAIN s |-> <<x, s[i][2]>>]
    IN  << east \o at(Deg(180), Reverse(east)),
           at(Deg(-180), Reverse(west)) \o west >>

\* lines 326-334: the four corners of pixel (i, j), lat index i, lon index j
pix_poly_coords(ds, i, j) ==
    << <<ds.lon_bnds[j][1], ds.lat_bnds[i][1]>>, <<ds.lon_bnds[j][1], ds.lat_bnds[i][2]>>,
       <<ds.lon_bnds[j][2], ds.lat_bnds[i][2]>>, <<ds.lon_bnds[j][2], ds.lat_bnds[i][1]>> >>

\* lines 340-341
cross_antimeridian(pts, thresh) ==
    /\ \E k \in DOMAIN pts : Abs(pts[k][1] - Deg(-180)) < Deg(thresh)
    /\ \E k \in DOMAIN pts : Abs(pts[k][1] - Deg(180)) < Deg(thresh)

\* lines 357-359
PixelGeometry(pts, thresh) ==
    IF cross_antimeridian(pts, thresh) THEN make_multipoly(pts) ELSE <<pts>>

\* pixel centre, the lat / lon coordinate of the raster
Centre(b) ==
    IF b[1] <= b[2] THEN (b[1] + b[2]) \div 2
    ELSE IF (b[1] + b[2] + Deg(360)) \div 2 >= Deg(180)
    THEN ((b[1] + b[2] + Deg(360)) \div 2) - Deg(360)
    ELSE (b[1] + b[2] + Deg(360)) \div 2

\* fillna(0) of line 350
FillNa0(vals) == [i \in DOMAIN vals |-> IF IsNaN(vals[i]) THEN QInt(0) ELSE vals[i]]

\* the rows of gdf_pixels, in the order of stack(loc=('lat','lon')); row k has
\* pix_idx k-1.  w is the stacked weights column (a Series) or NoneV.
GdfPixels(ds, w, thresh) ==
    [k \in 1..NPix(ds) |->
        LET i == ((k - 1) \div NLon(ds)) + 1
            j == ((k - 1) % NLon(ds)) + 1
            base == [lat |-> Centre(ds.lat_bnds[i]), lon |-> Centre(ds.lon_bnds[j]),
                     geometry |-> PixelGeometry(pix_poly_coords(ds, i, j), thresh),
                     pix_idx |-> k - 1, ds_want_to |-> "ds.values"]
        IN  IF w = NoneV THEN base ELSE base @@ [weights |-> w.val[k]]]

SourceGrid(ds) ==
    [lat |-> [k \in 1..NPix(ds) |-> Centre(ds.lat_bnds[((k - 1) \div NLon(ds)) + 1])],
     lon |-> [k \in 1..NPix(ds) |-> Centre(ds.lon_bnds[((k - 1) % NLon(ds)) + 1])]]

\* lines 312-382, pw being what process_weights returned
BuildPixels(ds, mask, weights, pw) ==
    IF pw.err # "none"
    THEN [err |-> pw.err, pix_agg |-> NoneV, warned |-> pw.warned]
    ELSE IF mask # NoneV
    THEN [err |-> "NotImplementedError", pix_agg |-> NoneV, warned |-> pw.warned]
    ELSE [err |-> "none",
          pix_agg |-> [gdf_pixels |->
                          GdfPixels(ds,
                                    IF weights # NoneV THEN Series(FillNa0(pw.weights))
                                    ELSE NoneV,
                                    WrapAroundThresh),
                       source_grid |-> SourceGrid(ds)],
          warned |-> pw.warned]

\* Returns [err, pix_agg, warned]
create_raster_polygons(ds, mask, weights, weights_target, nan_to_zero, has_xesmf) ==
    BuildPixels(ds, mask, weights,
                process_weights(ds, weights, weights_target, nan_to_zero, has_xesmf))

----------------------------------------------------------------------------
(* get_pixel_overlaps *)

PopScaleExp10 == 10     \* the divisor 10000000000 = 10^10 of weighted_population

\* a float q times 10^e
Scaled(q, e) == [q |-> q, e10 |-> e]

IntersectBox(a, b) ==
    [x0 |-> Max2(a.x0, b.x0), x1 |-> Min2(a.x1, b.x1),
     y0 |-> Max2(a.y0, b.y0), y1 |-> Min2(a.y1, b.y1)]

BoxRect(b) == Rect(b.x0, b.x1, b.y0, b.y1)

\* the intersections of the parts of g1 with those of g2, as a sequence
PartBoxes(g1, g2) ==
    [n \in 1..(Len(g1) * Len(g2)) |->
        IntersectBox(Box(g1[((n - 1) \div Len(g2)) + 1]), Box(g2[((n - 1) % Len(g2)) + 1]))]

NonEmpty(b) == b.x0 <= b.x1 /\ b.y0 <= b.y1
Is2D(b) == b.x0 < b.x1 /\ b.y0 < b.y1
AnyNonEmpty(boxes) == \E n \in DOMAIN boxes : NonEmpty(boxes[n])

\* predicate="intersects" of the spatial index: the closed sets meet
Intersects(g1, g2) == AnyNonEmpty(PartBoxes(g1, g2))

\* the parts kept of an intersection: those of dimension 2 only when
\* keep_geom_type (a shared edge or corner gives a line or a point)
KeepParts(boxes, keep_geom_type) ==
    IF keep_geom_type THEN SelectSeq(boxes, Is2D) ELSE SelectSeq(boxes, NonEmpty)

Rects(boxes) == [n \in DOMAIN boxes |-> BoxRect(boxes[n])]

\* g1.intersection(g2)
Intersection(g1, g2, keep_geom_type) ==
    Rects(KeepParts(PartBoxes(g1, g2), keep_geom_type))

\* the columns of an overlay row: those of the polygon row and of the pixel row,
\* a name they share suffixed _1 and _2, and the intersection as geometry
MergeRow(prow, xrow, geom) ==
    LET base == [poly_idx |-> prow.poly_idx, lat |-> xrow.lat, lon |-> xrow.lon,
                 pix_idx |-> xrow.pix_idx, ds_want_to |-> xrow.ds_want_to,
                 geometry |-> geom]
        pw == "weights" \in DOMAIN prow
        xw == "weights" \in DOMAIN xrow
    IN  IF pw /\ xw THEN base @@ [weights_1 |-> prow.weights, weights_2 |-> xrow.weights]
        ELSE IF pw THEN base @@ [weights |-> prow.weights]
        ELSE IF xw THEN base @@ [weights |-> xrow.weights]
        ELSE base

\* a row of df1 and a row of df2 with their intersection
OverlayPair(r1, r2, keep_geom_type) ==
    [r1 |-> r1, r2 |-> r2, hit |-> Intersects(r1.geometry, r2.geometry),
     geom |-> Intersection(r1.geometry, r2.geometry, keep_geom_type)]

\* every pair of rows, ordered by the row of df1 and then by the row of df2
OverlayPairs(df1, df2, keep_geom_type) ==
    [n \in 1..(Len(df1) * Len(df2)) |->
        OverlayPair(df1[((n - 1) \div Len(df2)) + 1], df2[((n - 1) % Len(df2)) + 1],
                    keep_geom_type)]

MergeRows(cand) ==
    [n \in DOMAIN cand |-> MergeRow(cand[n].r1, cand[n].r2, cand[n].geom)]

Hit(pr) == pr.hit
HasPolygonPart(pr) == pr.hit /\ pr.geom # <<>>

\* gdf.to_crs(epsg): the frame, its geometries in the projection
to_crs(rows, epsg) == [crs |-> epsg, rows |-> rows]

\* overlay with keep_geom_type=False: a pair that only touches gives a row
overlay_all_types(df1, df2) ==
    [crs |-> df1.crs,
     rows |-> MergeRows(SelectSeq(OverlayPairs(df1.rows, df2.rows, FALSE), Hit))]

\* gpd.overlay(df1, df2, how='intersection'), keep_geom_type=True by default:
\* one row per pair of rows whose intersection has a polygon part
\* in the crs of df1
overlay(df1, df2) ==
    [crs |-> df1.crs,
     rows |-> MergeRows(SelectSeq(OverlayPairs(df1.rows, df2.rows, TRUE), HasPolygonPart))]

\* the latitudes of the vertices of gdf_in
PolyLats(rows) ==
    UNION {{p[2] : p \in Range(rows[i].geometry[1])} : i \in DOMAIN rows}

\* np.any in the place of np.all
ChooseEpsgAny(lo, hi) ==
    IF lo > 0 \/ hi > 0 THEN "EPSG:6931"
    ELSE IF lo < 0 \/ hi < 0 THEN "EPSG:6932"
    ELSE "EPSG:6933"

\* lines 453-464, lo and hi being gdf_in.total_bounds[[1,3]]
ChooseEpsg(lo, hi) ==
    IF lo > 0 /\ hi > 0 THEN "EPSG:6931"
    ELSE IF lo < 0 /\ hi < 0 THEN "EPSG:6932"
    ELSE "EPSG:6933"

epsg_set(rows) == ChooseEpsg(MinOf(PolyLats(rows)), MaxOf(PolyLats(rows)))

\* the area of a cell in an equal-area projection: its width times the
\* difference of the sines of its latitudes
BoxArea(b) == QInt((b.x1 - b.x0) * (SinLat(b.y1) - SinLat(b.y0)))

\* geometry.area after to_crs(epsg): the three EASE-Grid 2.0 projections are
\* equal-area
Area(geom, epsg) == QSum([n \in DOMAIN geom |-> BoxArea(Box(geom[n]))])

Pick(vals, idx) == [n \in DOMAIN idx |-> vals[idx[n]]]

\* a sum over all the rows, whatever their polygon
GroupSumAll(rows, vals, r) ==
    QSum(Pick(vals, SelectSeq([n \in DOMAIN rows |-> n], LAMBDA n : ~IsNaN(vals[n]))))

\* groupby('poly_idx')[col].transform('sum') at row r, col given as the
\* sequence of its values: the sum over the rows of r's polygon, NaN skipped
GroupSum(rows, vals, r) ==
    QSum(Pick(vals, SelectSeq([n \in DOMAIN rows |-> n],
                              LAMBDA n : rows[n].poly_idx = rows[r].poly_idx
                                         /\ ~IsNaN(vals[n]))))

\* overlaps['geometry'].area
Areas(overlaps, epsg) == [n \in DOMAIN overlaps |-> Area(overlaps[n].geometry, epsg)]

\* overlaps['area'] * overlaps['weights'], before the division by 10^10
WeightedPopulation(overlaps, area) ==
    [n \in DOMAIN overlaps |-> QMul(area[n], overlaps[n].weights)]

AddColumns(overlaps, area, wp) ==
    [n \in DOMAIN overlaps |->
        overlaps[n] @@
        [area |-> area[n],
         weighted_population |-> Scaled(wp[n], -PopScaleExp10),
         population_fraction |-> QDiv(wp[n], GroupSum(overlaps, wp, n)),
         area_fraction |-> QDiv(area[n], GroupSum(overlaps, area, n))]]

FractionColumns(overlaps, area) ==
    AddColumns(overlaps, area, WeightedPopulation(overlaps, area))

\* lines 481-486 and 489-494 (the two branches are the same statements)
OverlapColumns(overlaps, epsg) == FractionColumns(overlaps, Areas(overlaps, epsg))

DropGeometry(row) == [c \in DOMAIN row \ {"geometry"} |-> row[c]]

\* lines 497-506
PackWm(full, pix, crs) ==
    weightmap([n \in DOMAIN full |-> DropGeometry(full[n])],
              pix.source_grid,
              [n \in DOMAIN full |-> full[n].geometry],
              DataFrame(full) @@ [crs |-> crs],
              IF "weights" \in DOMAIN pix.gdf_pixels[1]
              THEN Series([k \in DOMAIN pix.gdf_pixels |-> pix.gdf_pixels[k].weights])
              ELSE Nowghts)

\* lines 477-506, overlaps being the table made by the overlay: [err, wm]
OverlapsToWm(overlaps, pix, impl) ==
    IF overlaps.rows = <<>>
    THEN [err |-> "NoOverlapError", wm |-> NoneV]
    ELSE IF impl \in {"dot_product", "for_loop"} /\ "weights" \notin DOMAIN overlaps.rows[1]
    THEN [err |-> "KeyError", wm |-> NoneV]
    ELSE [err |-> "none",
          wm |-> PackWm(IF impl = "dot_product"
                        THEN OverlapColumns(overlaps.rows, overlaps.crs)
                        ELSE IF impl = "for_loop"
                        THEN OverlapColumns(overlaps.rows, overlaps.crs)
                        ELSE overlaps.rows,
                        pix, overlaps.crs)]

\* gdf_in['poly_idx'] = np.arange(0,len(gdf_in))
WithPolyIdx(rows) == [i \in DOMAIN rows |-> rows[i] @@ [poly_idx |-> i - 1]]

\* lines 473-475: both layers are brought to epsg before the overlay
ProjectedOverlay(rows, pixels, epsg) ==
    overlay(to_crs(rows, epsg), to_crs(pixels, epsg))

\* Returns [err, wm]
get_pixel_overlaps(gdf_in, pix, impl) ==
    OverlapsToWm(ProjectedOverlay(WithPolyIdx(gdf_in.rows), pix.gdf_pixels,
                                  epsg_set(WithPolyIdx(gdf_in.rows))),
                 pix, impl)

----------------------------------------------------------------------------
(* read_wm *)

\* wm.to_file(): the files of a bundle hold agg, the geometry, the source grid
\* and, when wm.weights is a Series, the weights; overlap_da is not written
to_file(w) ==
    [agg |-> w.agg, geometry |-> w.geometry, source_grid |-> w.source_grid,
     has_weights_csv |-> IsSeries(w.weights),
     weights_csv |-> IF IsSeries(w.weights) THEN w.weights.val ELSE <<>>]

\* lines 59-93
read_wm(bundle) ==
    LET weights == IF bundle.has_weights_csv THEN Series(bundle.weights_csv)
                   ELSE Nowghts
    IN  weightmap(bundle.agg, bundle.source_grid, bundle.geometry, NoneV, weights)

----------------------------------------------------------------------------
(* aggregate *)

\* wm.agg[var] = None
AddColumn(agg, name) ==
    [n \in DOMAIN agg |->
        [c \in (DOMAIN agg[n]) \cup {name} |-> IF c = name THEN NoneV ELSE agg[n][c]]]

\* np.full_like(ds_var, np.nan)
FullNaN(v, npix) == [data |-> [t \in 1..v.time |-> [k \in 1..npix |-> QNaN]]]

\* One pass of the loop over wm.agg.pix_idx (lines 655-665): [err, cal].
\* The value of the variable at the pixel has the shape of its non-spatial
\* dimension, area_fraction one entry per row of overlap_da with that pix_idx.
AreaFractions(hits) == [n \in DOMAIN hits |-> hits[n].area_fraction]

\* ds_var_cal.isel(loc=pix_idx)[:] = var_value * area_fraction
Assign(v, pix_idx, npix, af) ==
    IF v.time = 0
    THEN [err |-> "IndexError", cal |-> NoneV]
    ELSE IF Len(af) = 1 \/ Len(af) = v.time
    THEN [err |-> "none",
          cal |-> [FullNaN(v, npix) EXCEPT !.data =
                      [t \in 1..v.time |-> [p \in 1..npix |->
                          IF p = pix_idx + 1
                          THEN QMul(v.vals[t][p], IF Len(af) = 1 THEN af[1] ELSE af[t])
                          ELSE @[t][p]]]]]
    ELSE [err |-> "ValueError", cal |-> NoneV]

PixStep(overlap_da, v, pix_idx, npix) ==
    IF overlap_da = NoneV
    THEN [err |-> "AttributeError", cal |-> NoneV]
    ELSE Assign(v, pix_idx, npix,
                AreaFractions(SelectSeq(overlap_da.rows, LAMBDA r : r.pix_idx = pix_idx)))

\* the loop over the rows of agg for one variable: the first pass that raises
\* ends it, otherwise ds_var_cal is the array of the last pass
RECURSIVE PixLoop(_, _, _, _, _, _)
PixNext(agg, n, overlap_da, v, npix, r) ==
    IF r.err # "none" THEN r ELSE PixLoop(agg, n + 1, overlap_da, v, npix, r.cal)

PixLoop(agg, n, overlap_da, v, npix, cal) ==
    IF n > Len(agg) THEN [err |-> "none", cal |-> cal]
    ELSE PixNext(agg, n, overlap_da, v, npix,
                 PixStep(overlap_da, v, agg[n].pix_idx, npix))

\* `for var in ds`: [err, agg, cal]
RECURSIVE VarLoop(_, _, _, _, _)
VarNext(rest, agg1, overlap_da, npix, r) ==
    IF r.err # "none" THEN [err |-> r.err, agg |-> agg1, cal |-> NoneV]
    ELSE VarLoop(rest, agg1, overlap_da, npix, r.cal)

VarBody(dsvars, agg1, overlap_da, npix, cal) ==
    VarNext(Tail(dsvars), agg1, overlap_da, npix,
            PixLoop(agg1, 1, overlap_da, Head(dsvars), npix, cal))

VarLoop(dsvars, agg, overlap_da, npix, cal) ==
    IF dsvars = <<>> THEN [err |-> "none", agg |-> agg, cal |-> cal]
    ELSE IF ~(~Head(dsvars).has_bnds /\ Head(dsvars).has_loc)
    THEN VarLoop(Tail(dsvars), agg, overlap_da, npix, cal)
    ELSE VarBody(dsvars, AddColumn(agg, Head(dsvars).name), overlap_da, npix, cal)

\* lines 603-615: [err, weights]
ResolveWeights(w, impl) ==
    IF IsSeries(w.weights)
    THEN [err |-> "none", weights |-> w.weights.val]
    ELSE IF ~IsNowghts(w.weights)
    THEN [err |-> "TypeError", weights |-> <<>>]   \* str + print(...), which is None
    ELSE IF impl = "dot_product"
    THEN IF w.overlap_da = NoneV
         THEN [err |-> "TypeError", weights |-> <<>>]   \* None['loc']
         ELSE IF "loc" \in DOMAIN w.overlap_da.rows[1]
         THEN [err |-> "none", weights |-> [n \in DOMAIN w.overlap_da.rows |-> QInt(1)]]
         ELSE [err |-> "KeyError", weights |-> <<>>]
    ELSE [err |-> "none", weights |-> [n \in DOMAIN w.source_grid.lat |-> QInt(1)]]

\* lines 586-591: the variables of the Dataset made of a DataArray
ToDataset(ds) ==
    IF ds.type = "DataArray" /\ ~ds.named
    THEN [n \in DOMAIN ds.vars |-> [ds.vars[n] EXCEPT !.name = "var"]]
    ELSE ds.vars

\* lines 641-642 and 668-669, r being what the loops left: [err, agg, cal]
Finish(w, dsvars, warn, r) ==
    IF r.err # "none"
    THEN [err |-> r.err, wm |-> [w EXCEPT !.agg = r.agg], agg_out |-> NoneV,
          warned |-> warn]
    ELSE IF r.cal = NoneV
    THEN [err |-> "UnboundLocalError", wm |-> [w EXCEPT !.agg = r.agg],
          agg_out |-> NoneV, warned |-> warn]
    ELSE [err |-> "none", wm |-> [w EXCEPT !.agg = r.agg],
          agg_out |-> [agg |-> r.agg, source_grid |-> w.source_grid,
                       geometry |-> w.geometry, ds_in |-> dsvars,
                       ds_out |-> r.cal, weights |-> w.weights],
          warned |-> warn]

\* lines 603-669, rw being the outcome of the weights block
Loops(dsvars, w, impl, warn, rw) ==
    IF rw.err # "none"
    THEN [err |-> rw.err, wm |-> w, agg_out |-> NoneV, warned |-> warn]
    ELSE Finish(w, dsvars, warn,
                IF impl = "dot_product"
                THEN VarLoop(dsvars, w.agg, w.overlap_da, Len(w.source_grid.lat), NoneV)
                ELSE VarLoop(dsvars, w.agg, w.overlap_da, Len(w.source_grid.lat), NoneV))

\* aggregate without the test of lines 581-583
aggregate_unchecked(ds, w, impl) ==
    Loops(ToDataset(ds), w, impl,
          IF ds.type = "DataArray" /\ ~ds.named THEN {"unnamed DataArray"} ELSE {},
          ResolveWeights(w, impl))

\* Returns [err, wm, agg_out, warned]; wm is the weightmap after the call
aggregate(ds, w, impl) ==
    IF impl = "dot_product" /\ w.overlap_da = NoneV
    THEN [err |-> "ValueError", wm |-> w, agg_out |-> NoneV, warned |-> {}]
    ELSE Loops(ToDataset(ds), w, impl,
               IF ds.type = "DataArray" /\ ~ds.named THEN {"unnamed DataArray"} ELSE {},
               ResolveWeights(w, impl))

----------------------------------------------------------------------------
(* Rasters to aggregate, on the grid of the weightmap *)

ConstField(v) == [k \in 1..NPix(ScenarioGrid) |-> QInt(v)]
RampField == [k \in 1..NPix(ScenarioGrid) |-> QInt(k)]      \* 1,2,3,4 row-major

\* a variable over (time, lat, lon), or over (lat, lon) when time = 0
DataVar(name, time, field) ==
    [name |-> name, has_loc |-> TRUE, has_bnds |-> FALSE, time |-> time,
     vals |-> [t \in 1..Max2(time, 1) |-> field]]

\* lat_bnds(lat, bnds), which stack() broadcasts along loc
BndsVar ==
    [name |-> "lat_bnds", has_loc |-> TRUE, has_bnds |-> TRUE, time |-> 0,
     vals |-> <<ConstField(0)>>]

Dataset(dsvars) == [type |-> "Dataset", named |-> TRUE, vars |-> dsvars]

Rasters ==
    {Dataset(<<DataVar("tas", 0, RampField)>>),
     Dataset(<<DataVar("tas", 1, RampField)>>),
     Dataset(<<DataVar("tas", 1, ConstField(1))>>),
     Dataset(<<DataVar("tas", 1, ConstField(3))>>),
     Dataset(<<DataVar("tas", 2, RampField)>>),
     Dataset(<<DataVar("tas", 2, ConstField(3))>>),
     Dataset(<<DataVar("tas", 1, RampField), BndsVar>>),
     Dataset(<<DataVar("tas", 1, RampField), DataVar("weights", 1, ConstField(1))>>),
     Dataset(<<BndsVar>>),
     [type |-> "DataArray", named |-> FALSE, vars |-> <<DataVar("None", 1, RampField)>>]}

\* values a caller can bind to wm.weights that are neither a Series nor 'nowghts'
OtherWeights ==
    {[kind |-> "list", val |-> <<QInt(1), QInt(1), QInt(1), QInt(1)>>],
     [kind |-> "NoneType", val |-> <<>>]}

\* the bundles on disk: weightmaps of earlier runs, written by to_file
Bundles ==
    LET runs == {get_pixel_overlaps(
                     g, create_raster_polygons(ScenarioGrid, NoneV, a, "ds", TRUE, TRUE).pix_agg,
                     "for_loop") :
                   g \in {h \in GdfInputs : Len(h.rows) = 1},
                   a \in {b \in WeightArgs : b # NoneV /\ b.type = "DataArray" /\ b.same_grid}}
    IN  {to_file(r.wm) : r \in {x \in runs : x.err = "none"}}

----------------------------------------------------------------------------
(* The calls of one script, in the order a caller makes them.  An exception *)
(* propagates to the caller and ends the script.                            *)

Init ==
    /\ pix_agg = NoneV
    /\ wm = NoneV
    /\ agg_out = NoneV
    /\ err = "none"
    /\ warned = {}
    /\ call = [op |-> "init"]
    /\ ncalls = 0

CreateRasterPolygons ==
    /\ err = "none"
    /\ pix_agg = NoneV
    /\ wm = NoneV
    /\ \E ds \in Grids, mask \in {NoneV, [py |-> "mask"]}, weights \in WeightArgs,
          target \in Targets, nan_to_zero \in BOOLEAN, has_xesmf \in BOOLEAN :
          \E r \in {create_raster_polygons(ds, mask, weights, target, nan_to_zero, has_xesmf)} :
              /\ pix_agg' = IF r.err = "none" THEN r.pix_agg ELSE pix_agg
              /\ err' = r.err
              /\ warned' = r.warned
              /\ call' = [op |-> "create_raster_polygons", ds |-> ds, mask |-> mask,
                          weights |-> weights, weights_target |-> target,
                          nan_to_zero |-> nan_to_zero, has_xesmf |-> has_xesmf]
    /\ UNCHANGED <<wm, agg_out, ncalls>>

GetPixelOverlaps ==
    /\ err = "none"
    /\ pix_agg # NoneV
    /\ wm = NoneV
    /\ \E gdf_in \in GdfInputs, impl \in Impls :
          \E r \in {get_pixel_overlaps(gdf_in, pix_agg, impl)} :
              /\ wm' = r.wm
              /\ err' = r.err
              /\ call' = [op |-> "get_pixel_overlaps", gdf_in |-> gdf_in, impl |-> impl]
    /\ warned' = {}
    /\ UNCHANGED <<pix_agg, agg_out, ncalls>>

ReadWm ==
    /\ err = "none"
    /\ pix_agg = NoneV
    /\ wm = NoneV
    /\ \E bundle \in Bundles :
          /\ wm' = read_wm(bundle)
          /\ call' = [op |-> "read_wm", bundle |-> bundle]
    /\ err' = "none"
    /\ warned' = {}
    /\ UNCHANGED <<pix_agg, agg_out, ncalls>>

\* the caller rebinds the public attribute wm.weights
SetWeights ==
    /\ err = "none"
    /\ wm # NoneV
    /\ ncalls = 0
    /\ \E w \in OtherWeights :
          /\ wm' = [wm EXCEPT !.weights = w]
          /\ call' = [op |-> "set_weights", weights |-> w]
    /\ err' = "none"
    /\ warned' = {}
    /\ UNCHANGED <<pix_agg, agg_out, ncalls>>

Aggregate ==
    /\ err = "none"
    /\ wm # NoneV
    /\ ncalls < MaxAggCalls
    /\ \E ds \in Rasters, impl \in Impls :
          \E r \in {aggregate(ds, wm, impl)} :
              /\ wm' = r.wm
              /\ agg_out' = r.agg_out
              /\ err' = r.err
              /\ warned' = r.warned
              /\ call' = [op |-> "aggregate", ds |-> ds, impl |-> impl]
    /\ ncalls' = ncalls + 1
    /\ UNCHANGED pix_agg

Next ==
    \/ CreateRasterPolygons
    \/ GetPixelOverlaps
    \/ ReadWm
    \/ SetWeights
    \/ Aggregate

Spec == Init /\ [][Next]_vars

----------------------------------------------------------------------------
(* Properties *)

\* the rows of a table that belong to polygon p, and the sum of a column
RowsOf(rows, p) == SelectSeq(rows, LAMBDA r : r.poly_idx = p)
PolyIdxs(rows) == {rows[n].poly_idx : n \in DOMAIN rows}
ColumnSum(rows, col) == QSum([n \in DOMAIN rows |-> rows[n][col]])
QPositive(x) == x.d > 0 /\ x.n > 0

\* every polygon's fractions of column frac add up to one, and each is the
\* row's share of column total within its polygon
SharesOf(rows, frac, total) ==
    \A p \in PolyIdxs(rows) :
        /\ ColumnSum(RowsOf(rows, p), frac) = QInt(1)
        /\ \A r \in Range(RowsOf(rows, p)) :
              QMul(r[frac], ColumnSum(RowsOf(rows, p), total)) = r[total]

\* the fractions of column frac add up to one in every polygon
SumsToOne(rows, frac) ==
    \A p \in PolyIdxs(rows) : ColumnSum(RowsOf(rows, p), frac) = QInt(1)

\* C1: in a weightmap made by get_pixel_overlaps, each record's area_fraction
\* is its intersection area divided by the sum of the intersection areas of its
\* polygon, so the area fractions of every polygon sum to 1.
C1_AreaFractionsSumToOne ==
    wm # NoneV => SharesOf(wm.agg, "area_fraction", "area")

\* two polygons were overlaid, and one of them cuts its pixels unevenly
C1_Witness ==
    /\ call.op = "get_pixel_overlaps"
    /\ err = "none"
    /\ Cardinality(PolyIdxs(wm.agg)) = 2
    /\ \E n, m \in DOMAIN wm.agg :
          /\ wm.agg[n].poly_idx = wm.agg[m].poly_idx
          /\ wm.agg[n].area_fraction # wm.agg[m].area_fraction

\* C2: whenever the pixel layer carries a weight field, the population
\* fractions of every polygon sum to 1, a field of zeros included.
C2_PopulationFractionsSumToOne ==
    (wm # NoneV /\ IsSeries(wm.weights)) => SumsToOne(wm.agg, "population_fraction")

\* a variable that aggregate processes: it has loc and no bnds dimension
Qualifies(v) == v.has_loc /\ ~v.has_bnds

\* the weights of the weightmap do not tell one pixel from another
UniformWeights(w) ==
    IsNowghts(w) \/ (IsSeries(w) /\ \A i \in DOMAIN w.val : w.val[i] = w.val[1])

\* sum over the rows of v(pixel) * row[col], for every time step
WeightedSum(v, rows, col) ==
    [data |-> [t \in DOMAIN v.vals |->
                  QSum([n \in DOMAIN rows |->
                           QMul(v.vals[t][rows[n].pix_idx + 1], rows[n][col])])]]

\* every record of out.agg holds, in the column of v, what expected(v, rows of
\* the record's polygon) gives
ColumnHolds(out, v, expected(_, _)) ==
    \A n \in DOMAIN out.agg :
        out.agg[n][v.name] = expected(v, RowsOf(out.agg, out.agg[n].poly_idx))

AreaWeighted(v, rows) == WeightedSum(v, rows, "area_fraction")

\* C3: for uniform weights, aggregate returns for every polygon and both
\* implementations the sum over the overlapping pixels of the raster value times
\* the area fraction.
C3_AggregateIsAreaWeightedSum ==
    (call.op = "aggregate" /\ err = "none" /\ UniformWeights(wm.weights)) =>
        \A k \in DOMAIN agg_out.ds_in :
            Qualifies(agg_out.ds_in[k]) =>
                ColumnHolds(agg_out, agg_out.ds_in[k], AreaWeighted)

IsConstant(v) ==
    \A t \in DOMAIN v.vals : \A i \in DOMAIN v.vals[t] : v.vals[t][i] = v.vals[1][1]

TheConstant(v, rows) == [data |-> [t \in DOMAIN v.vals |-> v.vals[1][1]]]

\* C4: aggregating a raster that is the constant v over every overlapping pixel
\* yields v for every polygon, in both implementations.
C4_ConstantRasterYieldsConstant ==
    (call.op = "aggregate" /\ err = "none") =>
        \A k \in DOMAIN agg_out.ds_in :
            (Qualifies(agg_out.ds_in[k]) /\ IsConstant(agg_out.ds_in[k])) =>
                ColumnHolds(agg_out, agg_out.ds_in[k], TheConstant)

\* the weights tell apart two pixels of one polygon
WeightsDifferInAPolygon(w) ==
    \E n, m \in DOMAIN w.agg :
        /\ w.agg[n].poly_idx = w.agg[m].poly_idx
        /\ w.weights.val[w.agg[n].pix_idx + 1] # w.weights.val[w.agg[m].pix_idx + 1]

\* both calls return, and with different aggregated values
ValuesDiffer(a, b) ==
    /\ a.err = "none"
    /\ b.err = "none"
    /\ (a.agg_out.agg # b.agg_out.agg \/ a.agg_out.ds_out # b.agg_out.ds_out)

\* C5: a Series of weights weighs the aggregated values additionally, 'nowghts'
\* is uniform weighting: for weights that differ within a polygon some raster
\* is aggregated to other values than with 'nowghts'.
C5_WeightsChangeAggregate ==
    (wm # NoneV /\ wm.overlap_da # NoneV /\ IsSeries(wm.weights)
        /\ WeightsDifferInAPolygon(wm)) =>
        \E ds \in Rasters :
            ValuesDiffer(aggregate(ds, wm, "for_loop"),
                         aggregate(ds, [wm EXCEPT !.weights = Nowghts], "for_loop"))

\* C6: for every weightmap that has its overlap table and every raster,
\* impl='for_loop' and impl='dot_product' give the same outcome.
C6_ImplementationsAgree ==
    (wm # NoneV /\ wm.overlap_da # NoneV) =>
        \A ds \in Rasters :
            aggregate(ds, wm, "for_loop") = aggregate(ds, wm, "dot_product")

\* the open rectangles of two geometries meet
InteriorsMeet(g1, g2) ==
    \E i \in DOMAIN g1, j \in DOMAIN g2 :
        /\ Box(g1[i]).x0 < Box(g2[j]).x1
        /\ Box(g2[j]).x0 < Box(g1[i]).x1
        /\ Box(g1[i]).y0 < Box(g2[j]).y1
        /\ Box(g2[j]).y0 < Box(g1[i]).y1

\* some polygon of gdf_in and some pixel have a two-dimensional intersection
AnyOverlap(gdf_in, pix) ==
    \E i \in DOMAIN gdf_in.rows, k \in DOMAIN pix.gdf_pixels :
        InteriorsMeet(gdf_in.rows[i].geometry, pix.gdf_pixels[k].geometry)

\* C7: get_pixel_overlaps raises NoOverlapError exactly when no polygon has a
\* two-dimensional intersection with a pixel, and a weightmap it returns has at
\* least one record, every record with an intersection area that is not zero.
C7_NoOverlapErrorIffNoIntersection ==
    call.op = "get_pixel_overlaps" =>
        /\ (err = "NoOverlapError") <=> ~AnyOverlap(call.gdf_in, pix_agg)
        /\ (err = "none") =>
              /\ wm.agg # <<>>
              /\ \A n \in DOMAIN wm.agg : QPositive(wm.agg[n].area)

\* a polygon that shares an edge with the grid, and nothing more, is refused
C7_Witness ==
    /\ call.op = "get_pixel_overlaps"
    /\ err = "NoOverlapError"
    /\ \E i \in DOMAIN call.gdf_in.rows, k \in DOMAIN pix_agg.gdf_pixels :
          Intersects(call.gdf_in.rows[i].geometry, pix_agg.gdf_pixels[k].geometry)

\* C8: the population fraction is computed only if the pixel layer carries a
\* weight; without a weights column in the pixel layer the call completes with
\* the area fractions and records the weights as 'nowghts'.
C8_NoWeightsColumnCompletes ==
    call.op = "get_pixel_overlaps" =>
        /\ (err = "none" /\ "population_fraction" \in DOMAIN wm.agg[1]) =>
              "weights" \in DOMAIN pix_agg.gdf_pixels[1]
        /\ ("weights" \notin DOMAIN pix_agg.gdf_pixels[1]
               /\ AnyOverlap(call.gdf_in, pix_agg)) =>
              /\ err = "none"
              /\ IsNowghts(wm.weights)
              /\ SumsToOne(wm.agg, "area_fraction")

\* C9: aggregate with impl='dot_product' on a weightmap whose overlap_da is
\* None raises ValueError before anything else: no column is added to wm.agg
\* and the weightmap is as it was.
C9_ValueErrorBeforeAnythingElse ==
    [][(/\ wm # NoneV
        /\ ncalls' = ncalls + 1
        /\ call'.impl = "dot_product"
        /\ wm.overlap_da = NoneV)
         => (err' = "ValueError" /\ wm' = wm /\ agg_out' = NoneV)]_vars

\* the ValueError was raised for a weightmap read from files whose weights are
\* not even a supported value
C9_Witness ==
    /\ call.op = "aggregate"
    /\ call.impl = "dot_product"
    /\ err = "ValueError"
    /\ wm.overlap_da = NoneV
    /\ ~IsSeries(wm.weights)
    /\ ~IsNowghts(wm.weights)

\* the outcome of a call is that of ref: same exception or same values
SameOutcome(e, out, ref) ==
    /\ e = ref.err
    /\ e = "none" => (out.agg = ref.agg_out.agg /\ out.ds_out = ref.agg_out.ds_out)

\* C10: weights that are neither a Series nor 'nowghts' make aggregate warn,
\* go on, and return what it returns for 'nowghts'.
C10_UnsupportedWeightsWarnAndContinue ==
    (/\ call.op = "aggregate"
     /\ ~IsSeries(wm.weights)
     /\ ~IsNowghts(wm.weights)
     /\ ~(call.impl = "dot_product" /\ wm.overlap_da = NoneV)) =>
        /\ "unsupported weights" \in warned
        /\ SameOutcome(err, agg_out,
                       aggregate(call.ds, [wm EXCEPT !.weights = Nowghts], call.impl))

\* what process_weights gives for the arguments of the last call
LastProcessWeights ==
    process_weights(call.ds, call.weights, call.weights_target, call.nan_to_zero,
                    call.has_xesmf)

\* C11: process_weights called with a weight field validates its target at
\* entry: target='weights' fails with NotImplementedError and any target other
\* than 'ds' and 'weights' with KeyError, whether or not the grids match and
\* whether or not the regridding engine is installed.
C11_TargetValidatedAtEntry ==
    (/\ call.op = "create_raster_polygons"
     /\ call.weights # NoneV
     /\ call.weights.type = "DataArray") =>
        /\ call.weights_target = "weights" =>
              LastProcessWeights.err = "NotImplementedError"
        /\ call.weights_target \notin {"ds", "weights"} =>
              LastProcessWeights.err = "KeyError"

\* the columns of the first row of a table
Columns(rows) == DOMAIN rows[1]

\* the rows of table a are those of table b, with the values b has in the
\* columns of b
KeepsColumns(a, b) ==
    /\ Len(a) = Len(b)
    /\ \A n \in DOMAIN b : \A c \in DOMAIN b[n] : c \in DOMAIN a[n] /\ a[n][c] = b[n][c]

\* the names of the variables of a raster that aggregate processes
AggregatedNames(ds) ==
    {ToDataset(ds)[k].name : k \in {i \in DOMAIN ToDataset(ds) : Qualifies(ToDataset(ds)[i])}}

\* C12: an aggregate call leaves the source grid, the geometry, the weights,
\* the overlap table and the rows and existing columns of agg of the weightmap
\* as they were, adds to agg at most one column per aggregated variable, and
\* repeated on the same weightmap and raster returns what the call before it
\* returned.
C12_WeightmapImmutableButForNewColumns ==
    [][(wm # NoneV /\ ncalls' = ncalls + 1) =>
          /\ wm'.source_grid = wm.source_grid
          /\ wm'.geometry = wm.geometry
          /\ wm'.weights = wm.weights
          /\ wm'.overlap_da = wm.overlap_da
          /\ KeepsColumns(wm'.agg, wm.agg)
          /\ (Columns(wm'.agg) \ Columns(wm.agg)) \subseteq AggregatedNames(call'.ds)
          /\ (call.op = "aggregate" /\ call' = call /\ err' = "none") =>
                agg_out' = agg_out]_vars

\* every vertex of every polygon of gdf_in is north (south) of the equator
AllNorth(gdf_in) ==
    \A i \in DOMAIN gdf_in.rows : \A k \in DOMAIN gdf_in.rows[i].geometry :
        \A p \in Range(gdf_in.rows[i].geometry[k]) : p[2] > 0

AllSouth(gdf_in) ==
    \A i \in DOMAIN gdf_in.rows : \A k \in DOMAIN gdf_in.rows[i].geometry :
        \A p \in Range(gdf_in.rows[i].geometry[k]) : p[2] < 0

HemisphereProjection(gdf_in) ==
    IF AllNorth(gdf_in) THEN "EPSG:6931"
    ELSE IF AllSouth(gdf_in) THEN "EPSG:6932"
    ELSE "EPSG:6933"

\* C13: get_pixel_overlaps chooses EPSG:6931 when every polygon lies north of
\* the equator, EPSG:6932 when every polygon lies south of it and EPSG:6933
\* otherwise (a polygon on the equator is in neither hemisphere); the overlay
\* of the two layers, and so the overlap table, is in that one projection.
C13_ProjectionFromLatitudeBounds ==
    call.op = "get_pixel_overlaps" =>
        /\ epsg_set(WithPolyIdx(call.gdf_in.rows)) = HemisphereProjection(call.gdf_in)
        /\ err = "none" => wm.overlap_da.crs = HemisphereProjection(call.gdf_in)

\* polygons of the southern hemisphere were overlaid in the south grid
C13_Witness ==
    /\ call.op = "get_pixel_overlaps"
    /\ err = "none"
    /\ AllSouth(call.gdf_in)
    /\ wm.overlap_da.crs = "EPSG:6932"

\* the longitude bounds b of a pixel wrap across the antimeridian
Straddles(b) == b[1] > 0 /\ b[2] < 0

\* consecutive vertices of the ring differ in one coordinate only
EdgeAlongAxis(p, q) == (p[1] = q[1] /\ p[2] # q[2]) \/ (p[1] # q[1] /\ p[2] = q[2])

\* the ring closed from four vertices is a rectangle: a simple quadrilateral
SimpleQuadrilateral(part) ==
    /\ Len(part) = 4
    /\ Cardinality(Range(part)) = 4
    /\ \A n \in 1..4 : EdgeAlongAxis(part[n], part[(n % 4) + 1])

\* part spans the latitudes lat and, in longitude, lies in lo..hi
PartWithin(part, lat, lo, hi) ==
    /\ SimpleQuadrilateral(part)
    /\ Box(part).y0 = lat[1] /\ Box(part).y1 = lat[2]
    /\ lo <= Box(part).x0 /\ Box(part).x1 <= hi

Width(part) == Box(part).x1 - Box(part).x0

\* g is the split of the pixel with latitude bounds lat and longitude bounds lon
SplitAtAntimeridian(g, lat, lon) ==
    /\ Len(g) = 2
    /\ PartWithin(g[1], lat, lon[1], Deg(180))
    /\ PartWithin(g[2], lat, Deg(-180), lon[2])
    /\ Width(g[1]) + Width(g[2]) = lon[2] - lon[1] + Deg(360)
    /\ Width(g[1]) <= Deg(180)
    /\ Width(g[2]) <= Deg(180)

\* C14: make_multipoly of the four corners of a pixel whose longitude bounds
\* wrap across the antimeridian gives two parts, one within [lower bound, 180]
\* and one within [-180, upper bound], each a closed simple quadrilateral over
\* the pixel's latitudes; their widths add up to the angular width of the pixel
\* and neither is wider than 180 degrees.
C14_MakeMultipolySplitsThePixel ==
    call.op = "create_raster_polygons" =>
        \A i \in 1..NLat(call.ds), j \in 1..NLon(call.ds) :
            Straddles(call.ds.lon_bnds[j]) =>
                SplitAtAntimeridian(make_multipoly(pix_poly_coords(call.ds, i, j)),
                                    call.ds.lat_bnds[i], call.ds.lon_bnds[j])

\* a pixel layer holds a pixel that make_multipoly has split
C14_Witness ==
    /\ call.op = "create_raster_polygons"
    /\ err = "none"
    /\ \E k \in DOMAIN pix_agg.gdf_pixels :
          /\ Len(pix_agg.gdf_pixels[k].geometry) = 2
          /\ pix_agg.gdf_pixels[k].geometry =
                make_multipoly(pix_poly_coords(call.ds, ((k - 1) \div NLon(call.ds)) + 1,
                                               ((k - 1) % NLon(call.ds)) + 1))

\* C15: at the default wrap threshold, create_raster_polygons gives every pixel
\* whose longitude bounds straddle the antimeridian a two-part multipolygon and
\* every other pixel the single quadrilateral of its four corners, whatever the
\* resolution of the grid.
C15_StraddlingPixelsAreSplit ==
    (call.op = "create_raster_polygons" /\ err = "none") =>
        \A k \in DOMAIN pix_agg.gdf_pixels :
            IF Straddles(call.ds.lon_bnds[((k - 1) % NLon(call.ds)) + 1])
            THEN Len(pix_agg.gdf_pixels[k].geometry) = 2
            ELSE pix_agg.gdf_pixels[k].geometry =
                    <<pix_poly_coords(call.ds, ((k - 1) \div NLon(call.ds)) + 1,
                                      ((k - 1) % NLon(call.ds)) + 1)>>

\* C16: read_wm gives a weightmap with the agg, geometry and source grid of the
\* files, weights 'nowghts' exactly when there is no weights file, and no
\* overlap table; aggregate on it with impl='for_loop' completes and returns an
\* aggregated result, and only impl='dot_product' is refused, with ValueError.
C16_ReadWmWeightmapIsReusable ==
    /\ call.op = "read_wm" =>
          /\ wm.agg = call.bundle.agg
          /\ wm.geometry = call.bundle.geometry
          /\ wm.source_grid = call.bundle.source_grid
          /\ IsNowghts(wm.weights) <=> ~call.bundle.has_weights_csv
          /\ wm.overlap_da = NoneV
    /\ (/\ call.op = "aggregate"
        /\ wm.overlap_da = NoneV
        /\ (IsSeries(wm.weights) \/ IsNowghts(wm.weights))
        /\ AggregatedNames(call.ds) # {}) =>
          IF call.impl = "for_loop"
          THEN err = "none" /\ agg_out # NoneV
          ELSE err = "ValueError"

====
